---------------------------- MODULE Spec2Model ----------------------------
(***************************************************************************)
(* Model of crt_audio_oscilloscope.py: the settings file, the choice of    *)
(* the microphone, the audio callback (producer), the bounded hand-off     *)
(* queue and the render loop of CRT_Oscilloscope.run (consumer).           *)
(*                                                                         *)
(* Numbers are fixed point.  Gains and raw samples are counted in tenths   *)
(* (gain 2.0 is 20, sample 0.6 is 6), so a product sample*gain and every   *)
(* stored sample is counted in hundredths (1.0 is 100).  Smoothing is      *)
(* counted in hundredths (0.8 is 80).                                      *)
(***************************************************************************)
EXTENDS Integers, Sequences, FiniteSets, TLC

(***************************************************************************)
(* Bounds of the model.                                                    *)
(***************************************************************************)
\* callbacks that deliver a block in one session
MaxBlocks == 12
\* delivered buffers that carry sound; the microphone is silent after them
LoudBlocks == 2
\* frames per delivered buffer (block_size, 2048 in the program)
BlockSize == 1
\* slider events in one session
MaxChanges == 1
\* entries typed at the microphone prompt
MaxPrompts == 3
\* devices in the table of the audio subsystem
NumDevices == 3

(***************************************************************************)
(* Program constants.                                                      *)
(***************************************************************************)
\* queue.Queue(maxsize=10)
QueueMaxSize == 10
\* np.clip(..., -1, 1), in hundredths
ClipMin == -100
ClipMax == 100
\* config.get("gain", 1.0), in tenths
DefaultGain == 10
\* config.get("smoothing", 0.8), in hundredths
DefaultSmoothing == 80
\* config.get("device_index", 0) in load_config
DefaultDeviceIndex == 0
\* Slider(..., 0.5, 50.0, ...), in tenths
SliderGainMin == 5
SliderGainMax == 500
\* Slider(..., 0.0, 0.99, ...), in hundredths
SliderSmoothMin == 0
SliderSmoothMax == 99

Min(a, b) == IF a < b THEN a ELSE b
Max(a, b) == IF a > b THEN a ELSE b

(***************************************************************************)
(* Python's None for an optional integer: <<>> is None, <<i>> is i.        *)
(***************************************************************************)
None == <<>>
Some(i) == <<i>>

(***************************************************************************)
(* JSON values as the settings file holds them: null, a number, or text.   *)
(* The text in the model is text that float() rejects.                     *)
(***************************************************************************)
JNull == [t |-> "null", n |-> 0, s |-> ""]
JNum(x) == [t |-> "num", n |-> x, s |-> ""]
JStr(x) == [t |-> "str", n |-> 0, s |-> x]

\* json.dump of an optional integer and of a float
JsonOfOptional(o) == IF o = None THEN JNull ELSE JNum(o[1])
JsonOfFloat(x) == JNum(x)

\* json.load of a value that is kept as it is (device_index)
PyOfJson(v) == IF v.t = "null" THEN None ELSE IF v.t = "num" THEN Some(v.n) ELSE Some(v.s)

\* float(v): TypeError on null, ValueError on the text
FloatRaises(v) == v.t # "num"
FloatOf(v) == v.n

(***************************************************************************)
(* The settings file.  kind is "absent" (no file), "corrupt" (text that    *)
(* json.load rejects), "list" (JSON that is no object) or "json" (an       *)
(* object, doc maps the keys it holds to their JSON values).               *)
(***************************************************************************)
NoFile == [kind |-> "absent", doc |-> <<>>]
CorruptFile == [kind |-> "corrupt", doc |-> <<>>]
ListFile == [kind |-> "list", doc |-> <<>>]
JsonFile(d) == [kind |-> "json", doc |-> d]

\* dict.get(key, default) on a document
DictGet(d, key, default) == IF key \in DOMAIN d THEN d[key] ELSE default

\* the try block of load_config raises: json.load fails, config.get is
\* called on something that is no dict, or float() fails
LoadRaises(f) ==
    \/ f.kind = "corrupt"
    \/ f.kind = "list"
    \/ /\ f.kind = "json"
       /\ \/ FloatRaises(DictGet(f.doc, "gain", JNum(DefaultGain)))
          \/ FloatRaises(DictGet(f.doc, "smoothing", JNum(DefaultSmoothing)))

\* a load_config that leaves a file it cannot read where it is
load_config_keeps_file(f) ==
    IF f.kind = "absent" \/ LoadRaises(f)
    THEN [config |-> <<>>, file |-> f]
    ELSE [config |-> [device_index |-> PyOfJson(DictGet(f.doc, "device_index",
                                                        JNum(DefaultDeviceIndex))),
                      gain |-> FloatOf(DictGet(f.doc, "gain", JNum(DefaultGain))),
                      smoothing |-> FloatOf(DictGet(f.doc, "smoothing",
                                                    JNum(DefaultSmoothing)))],
          file |-> f]

\* a load_config that writes the defaults when it finds no file
load_config_creates_file(f) ==
    IF f.kind = "absent"
    THEN [config |-> <<>>,
          file |-> JsonFile([device_index |-> JNull, gain |-> JNum(DefaultGain),
                             smoothing |-> JNum(DefaultSmoothing)])]
    ELSE IF LoadRaises(f)
    THEN [config |-> <<>>, file |-> NoFile]
    ELSE [config |-> [device_index |-> PyOfJson(DictGet(f.doc, "device_index",
                                                        JNum(DefaultDeviceIndex))),
                      gain |-> FloatOf(DictGet(f.doc, "gain", JNum(DefaultGain))),
                      smoothing |-> FloatOf(DictGet(f.doc, "smoothing",
                                                    JNum(DefaultSmoothing)))],
          file |-> f]

\* a load_config that reads every field but the gain
load_config_default_gain(f) ==
    IF f.kind = "absent"
    THEN [config |-> <<>>, file |-> f]
    ELSE IF LoadRaises(f)
    THEN [config |-> <<>>, file |-> NoFile]
    ELSE [config |-> [device_index |-> PyOfJson(DictGet(f.doc, "device_index",
                                                        JNum(DefaultDeviceIndex))),
                      gain |-> DefaultGain,
                      smoothing |-> FloatOf(DictGet(f.doc, "smoothing",
                                                    JNum(DefaultSmoothing)))],
          file |-> f]

\* load_config(): the dictionary returned and the file left behind
load_config(f) ==
    IF f.kind = "absent"
    THEN [config |-> <<>>, file |-> f]
    ELSE IF LoadRaises(f)
    THEN [config |-> <<>>, file |-> NoFile]
    ELSE [config |-> [device_index |-> PyOfJson(DictGet(f.doc, "device_index",
                                                        JNum(DefaultDeviceIndex))),
                      gain |-> FloatOf(DictGet(f.doc, "gain", JNum(DefaultGain))),
                      smoothing |-> FloatOf(DictGet(f.doc, "smoothing",
                                                    JNum(DefaultSmoothing)))],
          file |-> f]

\* a save_config that never writes
save_config_skipped(f, cfg, ok) == f

\* save_config(config) when open() and json.dump succeed (ok) or raise
save_config(f, cfg, ok) ==
    IF ok
    THEN JsonFile([device_index |-> JsonOfOptional(cfg.device_index),
                   gain |-> JsonOfFloat(cfg.gain),
                   smoothing |-> JsonOfFloat(cfg.smoothing)])
    ELSE f

(***************************************************************************)
(* The device table and get_device.                                        *)
(***************************************************************************)
\* valid_devices: the indices (from 0) of the devices with input channels
valid_devices(table) == {i \in 0 .. (Len(table) - 1) : table[i + 1] > 0}

\* valid_devices[0][0], the default offered at the prompt
FirstValid(table) == CHOOSE i \in valid_devices(table) :
                         \A j \in valid_devices(table) : i <= j

\* saved_device is not None and any(saved_device == dev[0] ...)
SavedIsValid(saved, table) == saved # None /\ saved[1] \in valid_devices(table)

\* What the operator may type: nothing, text that int() rejects, or digits
NumericEntries == {"-1", "0", "1", "2", "3"}
EntryInt == [e \in NumericEntries |->
                CASE e = "-1" -> -1 [] e = "0" -> 0 [] e = "1" -> 1
                  [] e = "2" -> 2 [] e = "3" -> 3]
Entries == NumericEntries \cup {"", "abc", "1.5"}

\* int(input(...) or default): ok is FALSE when int() raises ValueError
ParseEntry(e, default) ==
    IF e = "" THEN [ok |-> TRUE, val |-> default]
    ELSE IF e \in NumericEntries THEN [ok |-> TRUE, val |-> EntryInt[e]]
    ELSE [ok |-> FALSE, val |-> default]

\* a prompt that takes any number typed
SelectedIsAnything(selected, table) == TRUE

\* any(selected == dev[0] for dev in valid_devices)
SelectedIsValid(selected, table) == selected \in valid_devices(table)

(***************************************************************************)
(* The audio path.                                                         *)
(***************************************************************************)
\* a clip that bounds a sample from above only
ClipUpperOnly(x) == Min(x, ClipMax)

\* np.clip(x, -1, 1) on one sample
Clip(x) == Min(Max(x, ClipMin), ClipMax)

\* indata[:, 0]: the first channel of every frame
FirstChannel(indata) == [j \in 1 .. Len(indata) |-> indata[j][1]]

\* np.clip(data * self.gain, -1, 1)
Scale(data, g) == [j \in 1 .. Len(data) |-> Clip(data[j] * g)]

\* a queue built without maxsize: put never finds it full
QueuePutUnbounded(q, item, block) ==
    [q |-> Append(q, item), exc |-> "none", waits |-> FALSE]

\* queue.Queue.put(item, block): when the queue is full a blocking put waits
\* and put_nowait raises queue.Full
QueuePut(q, item, block) ==
    IF Len(q) < QueueMaxSize
    THEN [q |-> Append(q, item), exc |-> "none", waits |-> FALSE]
    ELSE IF block
    THEN [q |-> q, exc |-> "none", waits |-> TRUE]
    ELSE [q |-> q, exc |-> "Full", waits |-> FALSE]

\* a hand-off that makes room by discarding the oldest block
put_drop_oldest(q, item) ==
    IF Len(q) < QueueMaxSize
    THEN [q |-> Append(q, item), exc |-> "none", waits |-> FALSE]
    ELSE [q |-> Append(Tail(q), item), exc |-> "none", waits |-> FALSE]

\* a hand-off by put(data), which waits for room
put_blocking(q, item) == QueuePut(q, item, TRUE)

\* self.audio_queue.put_nowait(data)
put_nowait(q, item) == QueuePut(q, item, FALSE)

\* a get that takes the newest item (queue.LifoQueue)
QueueGetNewest(q) == [item |-> q[Len(q)], q |-> SubSeq(q, 1, Len(q) - 1)]

\* queue.Queue.get: the oldest item and the rest
QueueGet(q) == [item |-> Head(q), q |-> Tail(q)]

\* a gain read once, when the settings were loaded
CallbackGainAtStart(g, cfg) == DictGet(cfg, "gain", DefaultGain)

\* self.gain as the callback reads it
CallbackGain(g, cfg) == g


(***************************************************************************)
(* State.                                                                  *)
(***************************************************************************)
VARIABLES
    file,           \* the settings file CONFIG_FILE
    config,         \* self.config, what load_config returned
    query_devices,  \* sd.query_devices(): max_input_channels of every device
    saved_device,   \* the argument of get_device
    gd_pc,          \* get_device: "call", "prompt", "returned", "raised"
    entries,        \* what the operator typed at the prompt so far
    device,         \* self.device
    gain,           \* self.gain
    smoothing,      \* self.smoothing
    audio_queue,    \* self.audio_queue
    line_ydata,     \* the trace on display, self.line's y data
    stream,         \* the input stream: "none", "active", "closed"
    windowOpen,     \* plt.fignum_exists(self.fig.number)
    pc,             \* where run() stands
    signal,         \* the waveform at the microphone, in tenths
    produced,       \* history: every block a callback built, in order
    forwarded,      \* history: every block given to line.set_ydata, in order
    cbResult,       \* how the last callback ended
    accepted,       \* history: seq of every block put_nowait took
    saveCalls,      \* history: calls of save_config
    saveResult,     \* what the last save_config printed: "none", "saved", "error"
    startFile,      \* history: the settings file as the program found it
    nChanges,       \* history: slider events
    reported,       \* the except clause of run() printed its message
    loopEntered     \* the while condition of run() was evaluated

vars == <<file, config, query_devices, saved_device, gd_pc, entries, device, gain,
          smoothing, audio_queue, line_ydata, stream, windowOpen, pc, signal,
          produced, forwarded, cbResult, accepted, saveCalls, saveResult, startFile,
          nChanges, reported, loopEntered>>

deviceVars == <<query_devices, saved_device, gd_pc, entries, device>>
settingsVars == <<file, config, gain, smoothing, saveCalls, saveResult, startFile, nChanges>>
audioVars == <<audio_queue, signal, produced, cbResult, accepted>>
displayVars == <<line_ydata, forwarded, windowOpen>>
runVars == <<stream, pc, reported, loopEntered>>

(***************************************************************************)
(* Inputs.                                                                 *)
(***************************************************************************)
\* settings files a session may start from
InitFiles == {NoFile,
              JsonFile([device_index |-> JNum(NumDevices - 1), gain |-> JNum(2 * DefaultGain),
                        smoothing |-> JNum(SliderSmoothMax)])}

\* the waveform at the microphone while there is sound, and silence
Signals == {<<6, -3>>}
Silence == <<0>>

\* values the gain and smoothing sliders may report
SliderGains == {SliderGainMin, SliderGainMax}
SliderSmoothings == {SliderSmoothMin}

\* device tables: max_input_channels of devices 0 .. NumDevices-1
Tables == [1 .. NumDevices -> {0, 1}]

\* the table of a session: the last device is the only microphone
SessionTable == [i \in 1 .. NumDevices |-> IF i = NumDevices THEN 1 ELSE 0]

\* np.zeros(self.block_size)
Zeros == [j \in 1 .. BlockSize |-> 0]

\* the buffer the k-th delivering callback gets (k from 0): block_size frames
\* of one channel, the waveform repeated while there is sound, then zeros
Buffer(sig, k) ==
    [j \in 1 .. BlockSize |->
        <<IF k < LoudBlocks THEN sig[((k * BlockSize + j - 1) % Len(sig)) + 1] ELSE 0>>]

(***************************************************************************)
(* get_device, one action per call and per answer at the prompt.           *)
(***************************************************************************)
\* lines 45-56: the table is read; no input device raises RuntimeError, a
\* saved index that is in the table is returned, otherwise the list is shown
GetDeviceCall ==
    /\ gd_pc = "call"
    /\ IF valid_devices(query_devices) = {}
       THEN gd_pc' = "raised" /\ device' = device
       ELSE IF SavedIsValid(saved_device, query_devices)
       THEN gd_pc' = "returned" /\ device' = saved_device[1]
       ELSE gd_pc' = "prompt" /\ device' = device
    /\ UNCHANGED <<query_devices, saved_device, entries>>
    /\ UNCHANGED <<settingsVars, audioVars, displayVars, runVars>>

\* lines 57-63: one turn of the while True loop on the entry e
GetDevicePrompt(e) ==
    /\ gd_pc = "prompt"
    /\ Len(entries) < MaxPrompts
    /\ entries' = Append(entries, e)
    /\ LET p == ParseEntry(e, FirstValid(query_devices))
       IN IF p.ok /\ SelectedIsValid(p.val, query_devices)
          THEN gd_pc' = "returned" /\ device' = p.val
          ELSE gd_pc' = gd_pc /\ device' = device
    /\ UNCHANGED <<query_devices, saved_device>>
    /\ UNCHANGED <<settingsVars, audioVars, displayVars, runVars>>

(***************************************************************************)
(* The audio callback.                                                     *)
(***************************************************************************)
\* a callback without the test for an empty buffer
NoFramesIgnored(indata) == FALSE

\* line 147: len(indata) == 0
NoFrames(indata) == Len(indata) = 0

\* audio_callback(indata, ...), lines 145-158; it runs while the stream is
\* started
audio_callback(indata) ==
    /\ stream = "active"
    /\ IF NoFrames(indata)
       THEN /\ cbResult' = "empty"
            /\ UNCHANGED <<audio_queue, produced, accepted>>
       ELSE /\ Len(produced) < MaxBlocks
            /\ LET data == Scale(FirstChannel(indata), CallbackGain(gain, config))
                   seq == Len(produced) + 1
                   r == put_nowait(audio_queue, [seq |-> seq, data |-> data])
               IN /\ ~r.waits
                  /\ audio_queue' = r.q
                  /\ cbResult' = IF r.exc = "none" THEN "enqueued"
                                 ELSE IF r.exc = "Full" THEN "dropped"
                                 ELSE "raised"
                  /\ accepted' = IF r.exc = "none" THEN accepted \cup {seq} ELSE accepted
                  /\ produced' = Append(produced,
                                        [seq |-> seq, raw |-> FirstChannel(indata),
                                         data |-> data])
    /\ UNCHANGED signal
    /\ UNCHANGED <<deviceVars, settingsVars, displayVars, runVars>>

\* the buffers the audio subsystem may deliver next
NextBuffers == {<<>>, Buffer(signal, Len(produced))}

AudioCallback == \E indata \in NextBuffers : audio_callback(indata)

(***************************************************************************)
(* Slider events, handled inside flush_events() and plt.pause().           *)
(***************************************************************************)
\* save_state(), lines 137-143
save_state(g, s, ok) ==
    /\ file' = save_config(file, [device_index |-> Some(device), gain |-> g, smoothing |-> s], ok)
    /\ saveCalls' = saveCalls + 1
    /\ saveResult' = IF ok THEN "saved" ELSE "error"

\* update_gain(val), lines 129-131
update_gain(val, ok) ==
    /\ pc = "pause"
    /\ nChanges < MaxChanges
    /\ gain' = val
    /\ save_state(val, smoothing, ok)
    /\ nChanges' = nChanges + 1
    /\ UNCHANGED <<config, smoothing, startFile>>
    /\ UNCHANGED <<deviceVars, audioVars, displayVars, runVars>>

\* update_smoothing(val), lines 133-135
update_smoothing(val, ok) ==
    /\ pc = "pause"
    /\ nChanges < MaxChanges
    /\ smoothing' = val
    /\ save_state(gain, val, ok)
    /\ nChanges' = nChanges + 1
    /\ UNCHANGED <<config, gain, startFile>>
    /\ UNCHANGED <<deviceVars, audioVars, displayVars, runVars>>

UpdateGain == \E val \in SliderGains, ok \in BOOLEAN : update_gain(val, ok)

UpdateSmoothing == \E val \in SliderSmoothings, ok \in BOOLEAN : update_smoothing(val, ok)

\* the operator closes the window; the event loop destroys the figure
CloseWindow ==
    /\ pc = "pause"
    /\ windowOpen
    /\ windowOpen' = FALSE
    /\ UNCHANGED <<line_ydata, forwarded>>
    /\ UNCHANGED <<deviceVars, settingsVars, audioVars, runVars>>

(***************************************************************************)
(* run(), lines 160-190.                                                   *)
(***************************************************************************)
\* lines 164-172: the stream is opened and started
OpenStream ==
    /\ pc = "start"
    /\ gd_pc = "returned"
    /\ stream' = "active"
    /\ pc' = "test"
    /\ UNCHANGED <<reported, loopEntered>>
    /\ UNCHANGED <<deviceVars, settingsVars, audioVars, displayVars>>

\* sd.InputStream raises and no except clause is there: run() raises
OpenStreamFailsUncaught ==
    /\ pc = "start"
    /\ gd_pc = "returned"
    /\ pc' = "raised"
    /\ UNCHANGED <<stream, reported, loopEntered>>
    /\ UNCHANGED <<deviceVars, settingsVars, audioVars, displayVars>>

\* lines 164-170, 182-184: sd.InputStream raises, the except clause prints
OpenStreamFails ==
    /\ pc = "start"
    /\ gd_pc = "returned"
    /\ reported' = TRUE
    /\ pc' = "save"
    /\ UNCHANGED <<stream, loopEntered>>
    /\ UNCHANGED <<deviceVars, settingsVars, audioVars, displayVars>>

\* line 173: while plt.fignum_exists(self.fig.number)
LoopTest ==
    /\ pc = "test"
    /\ pc' = IF windowOpen THEN "get" ELSE "exit"
    /\ loopEntered' = TRUE
    /\ UNCHANGED <<stream, reported>>
    /\ UNCHANGED <<deviceVars, settingsVars, audioVars, displayVars>>

\* lines 175-178: a block is taken and given to the display
LoopGet ==
    /\ pc = "get"
    /\ audio_queue # <<>>
    /\ LET g == QueueGet(audio_queue)
       IN /\ audio_queue' = g.q
          /\ line_ydata' = g.item.data
          /\ forwarded' = Append(forwarded, g.item)
    /\ pc' = "pause"
    /\ UNCHANGED <<signal, produced, cbResult, accepted, windowOpen>>
    /\ UNCHANGED <<stream, reported, loopEntered>>
    /\ UNCHANGED <<deviceVars, settingsVars>>

\* a get() without timeout: it waits on an empty queue
GetWaitsForever(q) == FALSE

\* line 175: get(timeout=0.02) gives up on a queue that stays empty
GetTimesOut(q) == q = <<>>

\* a loop without the except queue.Empty clause: the exception leaves it
LoopGetTimeoutUncaught ==
    /\ pc = "get"
    /\ GetTimesOut(audio_queue)
    /\ pc' = "exit_raised"
    /\ UNCHANGED <<stream, reported, loopEntered>>
    /\ UNCHANGED <<deviceVars, settingsVars, audioVars, displayVars>>

\* lines 175, 179-180: get(timeout=0.02) raises queue.Empty
LoopGetTimeout ==
    /\ pc = "get"
    /\ GetTimesOut(audio_queue)
    /\ pc' = "pause"
    /\ UNCHANGED <<stream, reported, loopEntered>>
    /\ UNCHANGED <<deviceVars, settingsVars, audioVars, displayVars>>

\* line 181: plt.pause(0.01) returns
LoopPause ==
    /\ pc = "pause"
    /\ pc' = "test"
    /\ UNCHANGED <<stream, reported, loopEntered>>
    /\ UNCHANGED <<deviceVars, settingsVars, audioVars, displayVars>>

\* lines 176-181: a call of the display raises inside the loop
LoopRaises ==
    /\ pc = "pause"
    /\ pc' = "exit_raised"
    /\ UNCHANGED <<stream, reported, loopEntered>>
    /\ UNCHANGED <<deviceVars, settingsVars, audioVars, displayVars>>

\* a stream opened without the with statement: nothing stops it
StreamLeftOpen(st) == st

\* what leaving the with statement does to the stream: stop() and close()
StreamAfterWith(st) == "closed"

\* lines 171, 182-184: the with statement is left, the stream is stopped and
\* closed; an exception on its way out is then printed by the except clause
StreamExit ==
    /\ pc \in {"exit", "exit_raised"}
    /\ stream' = StreamAfterWith(stream)
    /\ reported' = (pc = "exit_raised")
    /\ pc' = "save"
    /\ UNCHANGED loopEntered
    /\ UNCHANGED <<deviceVars, settingsVars, audioVars, displayVars>>

\* a run() that returns without its last save_config
final_save_missing(ok) ==
    /\ pc = "save"
    /\ pc' = "done"
    /\ UNCHANGED <<stream, reported, loopEntered>>
    /\ UNCHANGED <<deviceVars, settingsVars, audioVars, displayVars>>

\* lines 186-190: the last save_config, then run() returns
final_save(ok) ==
    /\ pc = "save"
    /\ save_state(gain, smoothing, ok)
    /\ pc' = "done"
    /\ UNCHANGED <<config, gain, smoothing, startFile, nChanges>>
    /\ UNCHANGED <<stream, reported, loopEntered>>
    /\ UNCHANGED <<deviceVars, audioVars, displayVars>>

FinalSave == \E ok \in BOOLEAN : final_save(ok)

(***************************************************************************)
(* Specifications.                                                         *)
(***************************************************************************)
\* the entry that reads as the integer i
EntryFor(i) == CHOOSE e \in NumericEntries : EntryInt[e] = i

\* the fields a finished construction leaves for run()
Constructed ==
    /\ audio_queue = <<>>
    /\ line_ydata = Zeros
    /\ stream = "none"
    /\ windowOpen = TRUE
    /\ produced = <<>>
    /\ forwarded = <<>>
    /\ cbResult = "none"
    /\ accepted = {}
    /\ saveCalls = 0
    /\ saveResult = "none"
    /\ nChanges = 0
    /\ reported = FALSE
    /\ loopEntered = FALSE

\* __init__, lines 69-127, has run on one of the settings files and with one
\* of the waveforms: the settings are loaded, the device is chosen, the queue
\* is empty, the window is open
InitFrom(files, signals) ==
    /\ \E f \in files :
          /\ startFile = f
          /\ file = load_config(f).file
          /\ config = load_config(f).config
    /\ query_devices = SessionTable
    /\ saved_device = DictGet(config, "device_index", None)
    /\ device \in valid_devices(query_devices)
    /\ SavedIsValid(saved_device, query_devices) => device = saved_device[1]
    /\ entries = IF SavedIsValid(saved_device, query_devices) THEN <<>>
                 ELSE <<EntryFor(device)>>
    /\ gd_pc = "returned"
    /\ gain = DictGet(config, "gain", DefaultGain)
    /\ smoothing = DictGet(config, "smoothing", DefaultSmoothing)
    /\ signal \in signals
    /\ pc = "start"
    /\ Constructed

Init == InitFrom(InitFiles, Signals)

\* a first session (no settings file) in front of a silent microphone
LiveInit == InitFrom({NoFile}, {Silence})

Next ==
    \/ AudioCallback
    \/ UpdateGain
    \/ UpdateSmoothing
    \/ CloseWindow
    \/ OpenStream
    \/ OpenStreamFails
    \/ LoopTest
    \/ LoopGet
    \/ LoopGetTimeout
    \/ LoopPause
    \/ LoopRaises
    \/ StreamExit
    \/ FinalSave

Spec == Init /\ [][Next]_vars

\* the render loop keeps being scheduled
LoopFairness ==
    /\ WF_vars(LoopTest)
    /\ WF_vars(LoopGet)
    /\ WF_vars(LoopGetTimeout)
    /\ WF_vars(LoopPause)

LiveSpec == LiveInit /\ [][Next]_vars /\ LoopFairness

\* run() keeps running to its end: the loop's steps, the exit of the with
\* statement and the last save_config are not held up for ever
TerminationSpec ==
    LiveInit /\ [][Next]_vars /\ LoopFairness /\ WF_vars(StreamExit) /\ WF_vars(FinalSave)

\* get_device alone, on any table and any saved index
InitDevice ==
    /\ file = NoFile
    /\ startFile = NoFile
    /\ config = <<>>
    /\ query_devices \in Tables
    /\ saved_device \in {None} \cup {Some(i) : i \in 0 .. NumDevices}
    /\ device = None
    /\ entries = <<>>
    /\ gd_pc = "call"
    /\ gain = DefaultGain
    /\ smoothing = DefaultSmoothing
    /\ signal = Silence
    /\ pc = "init"
    /\ Constructed

NextDevice ==
    \/ GetDeviceCall
    \/ \E e \in Entries : GetDevicePrompt(e)

SpecDevice == InitDevice /\ [][NextDevice]_vars

(***************************************************************************)
(* save_config then load_config on every valid settings dictionary.        *)
(***************************************************************************)
\* the settings the program can hold: the device unset or an index, the
\* gain and the smoothing anywhere on their sliders
ValidSettings ==
    [device_index : {None} \cup {Some(i) : i \in 0 .. NumDevices},
     gain : SliderGainMin .. SliderGainMax,
     smoothing : {SliderSmoothMin, DefaultSmoothing, SliderSmoothMax}]

\* save_config(config), lines 29-41, on the dictionary in config
RoundTripSave ==
    /\ pc = "store"
    /\ \E ok \in BOOLEAN :
          /\ file' = save_config(file, config, ok)
          /\ saveResult' = IF ok THEN "saved" ELSE "error"
    /\ saveCalls' = saveCalls + 1
    /\ pc' = "stored"
    /\ UNCHANGED <<config, gain, smoothing, startFile, nChanges>>
    /\ UNCHANGED <<stream, reported, loopEntered>>
    /\ UNCHANGED <<deviceVars, audioVars, displayVars>>

\* config = load_config(), lines 13-27
RoundTripLoad ==
    /\ pc = "stored"
    /\ config' = load_config(file).config
    /\ file' = load_config(file).file
    /\ pc' = "loaded"
    /\ UNCHANGED <<gain, smoothing, saveCalls, saveResult, startFile, nChanges>>
    /\ UNCHANGED <<stream, reported, loopEntered>>
    /\ UNCHANGED <<deviceVars, audioVars, displayVars>>

\* any valid settings in memory; no settings file yet, or one that cannot
\* be read
InitRoundTrip ==
    /\ config \in ValidSettings
    /\ file \in {NoFile, CorruptFile}
    /\ startFile = file
    /\ query_devices = SessionTable
    /\ saved_device = None
    /\ device = None
    /\ entries = <<>>
    /\ gd_pc = "call"
    /\ gain = DefaultGain
    /\ smoothing = DefaultSmoothing
    /\ signal = Silence
    /\ pc = "store"
    /\ Constructed

NextRoundTrip ==
    \/ RoundTripSave
    \/ RoundTripLoad

SpecRoundTrip == InitRoundTrip /\ [][NextRoundTrip]_vars

(***************************************************************************)
(* __init__, lines 69-127, step by step on every settings file.            *)
(***************************************************************************)
\* settings files a session may find: none, text that is no JSON, a JSON
\* list, a whole record, records lacking fields, a null device_index,
\* values off the sliders, and values float() rejects
StartFiles ==
    {NoFile, CorruptFile, ListFile,
     JsonFile([device_index |-> JNum(1), gain |-> JNum(2 * DefaultGain),
               smoothing |-> JNum(SliderSmoothMax)]),
     JsonFile([gain |-> JNum(2 * DefaultGain), smoothing |-> JNum(SliderSmoothMax)]),
     JsonFile([device_index |-> JNum(1), smoothing |-> JNum(SliderSmoothMax)]),
     JsonFile([device_index |-> JNum(1), gain |-> JNum(2 * DefaultGain)]),
     JsonFile([device_index |-> JNull, gain |-> JNum(SliderGainMin),
               smoothing |-> JNum(SliderSmoothMin)]),
     JsonFile([device_index |-> JNum(1), gain |-> JNum(2 * SliderGainMax),
               smoothing |-> JNum(SliderSmoothMax + 1)]),
     JsonFile([device_index |-> JNum(1), gain |-> JStr("loud"),
               smoothing |-> JNum(DefaultSmoothing)]),
     JsonFile([device_index |-> JNum(1), gain |-> JNum(DefaultGain),
               smoothing |-> JNull])}

\* lines 71-72: the settings are loaded and get_device is called with the
\* device_index found in them
LoadConfig ==
    /\ pc = "boot"
    /\ config' = load_config(file).config
    /\ file' = load_config(file).file
    /\ saved_device' = DictGet(load_config(file).config, "device_index", None)
    /\ gd_pc' = "call"
    /\ pc' = "device"
    /\ UNCHANGED <<query_devices, entries, device>>
    /\ UNCHANGED <<gain, smoothing, saveCalls, saveResult, startFile, nChanges>>
    /\ UNCHANGED <<stream, reported, loopEntered>>
    /\ UNCHANGED <<audioVars, displayVars>>

\* lines 84-127: get_device has returned; gain and smoothing are taken from
\* the settings, the queue, the figure and the sliders are built
FinishInit ==
    /\ pc = "device"
    /\ gd_pc = "returned"
    /\ gain' = DictGet(config, "gain", DefaultGain)
    /\ smoothing' = DictGet(config, "smoothing", DefaultSmoothing)
    /\ pc' = "start"
    /\ UNCHANGED <<file, config, saveCalls, saveResult, startFile, nChanges>>
    /\ UNCHANGED <<stream, reported, loopEntered>>
    /\ UNCHANGED <<deviceVars, audioVars, displayVars>>

\* before __init__: gain and smoothing are not assigned yet (0 stands for
\* that), no device is chosen
InitStartup ==
    /\ file \in StartFiles
    /\ startFile = file
    /\ config = <<>>
    /\ query_devices \in Tables
    /\ saved_device = None
    /\ device = None
    /\ entries = <<>>
    /\ gd_pc = "idle"
    /\ gain = 0
    /\ smoothing = 0
    /\ signal = Silence
    /\ pc = "boot"
    /\ Constructed

NextStartup ==
    \/ LoadConfig
    \/ GetDeviceCall
    \/ \E e \in Entries : GetDevicePrompt(e)
    \/ FinishInit

SpecStartup == InitStartup /\ [][NextStartup]_vars

(***************************************************************************)
(* Properties.                                                             *)
(***************************************************************************)
\* the seq of every block of a sequence of blocks, in order
SeqsOf(q) == [i \in 1 .. Len(q) |-> q[i].seq]
SeqSet(q) == {q[i].seq : i \in 1 .. Len(q)}
Increasing(ns) == \A i, j \in 1 .. Len(ns) : i < j => ns[i] < ns[j]

\* a callback that built a block has just run
CallbackDelivered == Len(produced') = Len(produced) + 1

\* C1: in every reachable state the hand-off queue holds at most
\* QueueMaxSize (10) blocks.
C1_QueueWithinCapacity == Len(audio_queue) <= QueueMaxSize

\* the queue is full and a callback found it full
C1_Witness == Len(audio_queue) = QueueMaxSize /\ cbResult = "dropped"

\* C2: a callback that finds the queue full discards its own block and
\* leaves the queue's contents and order unchanged; after 11 callbacks with
\* no dequeue in between the queue holds the first 10 blocks as they were
\* built and the 11th is dropped.
C2_FullQueueDropsNewest ==
    /\ [][(CallbackDelivered /\ Len(audio_queue) = QueueMaxSize)
            => (audio_queue' = audio_queue /\ cbResult' = "dropped"
                /\ accepted' = accepted)]_vars
    /\ []((Len(produced) = QueueMaxSize + 1 /\ forwarded = <<>>)
            => /\ audio_queue = [i \in 1 .. QueueMaxSize |->
                                    [seq |-> i, data |-> produced[i].data]]
               /\ accepted = 1 .. QueueMaxSize
               /\ cbResult \in {"dropped", "empty"})

\* 11 callbacks and no dequeue: the queue is full and the 11th was dropped
C2_Witness ==
    /\ Len(produced) = QueueMaxSize + 1
    /\ forwarded = <<>>
    /\ Len(audio_queue) = QueueMaxSize
    /\ cbResult = "dropped"

\* C3: the blocks given to the display are a subsequence of the blocks the
\* callbacks built, in the same order, each accepted block at most once and
\* none that was not accepted; the blocks displayed followed by the blocks
\* queued are exactly the accepted blocks in the order they were built.
C3_HandoffIsFifo ==
    /\ Increasing(SeqsOf(forwarded \o audio_queue))
    /\ SeqSet(forwarded \o audio_queue) = accepted
    /\ accepted \subseteq 1 .. Len(produced)
    /\ \A i \in 1 .. Len(forwarded) :
          /\ forwarded[i].seq \in accepted
          /\ forwarded[i].data = produced[forwarded[i].seq].data
    /\ \A i \in 1 .. Len(produced) : produced[i].seq = i

\* several blocks were displayed, one of them built after a block was dropped
C3_Witness ==
    /\ Len(forwarded) >= 2
    /\ \E i \in 1 .. Len(forwarded) : forwarded[i].seq > i

\* the render loop is running: run() stands in its while loop
LoopPcs == {"test", "get", "pause"}

\* C4: an enqueue never removes or moves a block that is queued, and a
\* queued block is in the end taken and given to the display, unless the
\* window is closed or the loop is ended by an exception first.
C4_AcceptedBlockIsForwarded ==
    /\ [][CallbackDelivered
            => SubSeq(audio_queue', 1, Len(audio_queue)) = audio_queue]_vars
    /\ \A n \in 1 .. MaxBlocks :
          (n \in SeqSet(audio_queue))
             ~> (n \in SeqSet(forwarded) \/ ~windowOpen \/ pc \notin LoopPcs)

\* a block waited behind nine others in a full queue, a newer block was
\* dropped meanwhile, and the waiting block is now on display
C4_Witness ==
    /\ QueueMaxSize \in SeqSet(forwarded)
    /\ (QueueMaxSize + 1) \in (1 .. Len(produced)) \ accepted
    /\ line_ydata = produced[QueueMaxSize].data
    /\ windowOpen

\* the block the last delivering callback built
LastProduced == produced[Len(produced)]

\* C5: while the stream is started a callback can always run to its end,
\* whatever the queue holds and wherever run() stands; it ends by enqueuing
\* its block or by dropping it, never with an error, and a dropped block is
\* not offered again.
C5_CallbackNeverWaits ==
    /\ cbResult \in {"none", "enqueued", "dropped", "empty"}
    /\ stream = "active" =>
          \A indata \in NextBuffers :
             (Len(indata) = 0 \/ Len(produced) < MaxBlocks)
                => ENABLED audio_callback(indata)
    /\ cbResult = "enqueued" => Len(produced) \in accepted
    /\ cbResult = "dropped" =>
          /\ Len(produced) \notin accepted
          /\ Len(produced) \notin SeqSet(audio_queue)

\* a callback dropped its block on a full queue after the loop had ended and
\* before the stream was stopped
C5_Witness ==
    /\ pc = "exit_raised"
    /\ stream = "active"
    /\ Len(audio_queue) = QueueMaxSize
    /\ cbResult = "dropped"

\* C6: the sample a callback stores is the raw sample times the gain, cut to
\* [-1.0, 1.0] (-100 .. 100 in hundredths); every sample queued, displayed
\* or built lies in that range and clipping it again changes nothing; with
\* gain 2.0 a raw 0.6 is stored as 1.0 and a raw -0.3 as -0.6.
C6_SamplesAreClamped ==
    /\ [][CallbackDelivered =>
            \A j \in 1 .. Len(LastProduced'.data) :
               LET x == LastProduced'.raw[j] * gain
                   d == LastProduced'.data[j]
               IN /\ d = (IF x > 100 THEN 100 ELSE IF x < -100 THEN -100 ELSE x)
                  /\ (gain = 20 /\ LastProduced'.raw[j] = 6) => d = 100
                  /\ (gain = 20 /\ LastProduced'.raw[j] = -3) => d = -60]_vars
    /\ [](/\ \A i \in 1 .. Len(produced) : \A j \in 1 .. Len(produced[i].data) :
                /\ produced[i].data[j] \in -100 .. 100
                /\ Clip(produced[i].data[j]) = produced[i].data[j]
          /\ \A i \in 1 .. Len(audio_queue) : \A j \in 1 .. Len(audio_queue[i].data) :
                audio_queue[i].data[j] \in -100 .. 100
          /\ \A i \in 1 .. Len(forwarded) : \A j \in 1 .. Len(forwarded[i].data) :
                forwarded[i].data[j] \in -100 .. 100
          /\ \A j \in 1 .. Len(line_ydata) : line_ydata[j] \in -100 .. 100)

\* with gain 2.0 the raw samples 0.6 and -0.3 were stored as 1.0 and -0.6,
\* and the first of them is on display
C6_Witness ==
    /\ gain = 20
    /\ Len(produced) >= 2
    /\ produced[1].raw[1] = 6 /\ produced[1].data[1] = 100
    /\ produced[2].raw[1] = -3 /\ produced[2].data[1] = -60
    /\ line_ydata[1] = 100
    /\ 2 \in SeqSet(audio_queue)

\* C7: a callback scales its block with the gain of that moment; a gain
\* change leaves the stream as it is and leaves every block built, queued or
\* displayed before it as it was.
C7_GainIsReadLive ==
    /\ [][/\ CallbackDelivered =>
                LastProduced'.data = Scale(LastProduced'.raw, gain)
          /\ gain' # gain =>
                /\ stream' = stream
                /\ audio_queue' = audio_queue
                /\ produced' = produced
                /\ forwarded' = forwarded
                /\ line_ydata' = line_ydata]_vars
    /\ [](\A i \in 1 .. Len(audio_queue) :
             audio_queue[i].data = produced[audio_queue[i].seq].data)

\* the gain was changed while a block waited in the queue: that block keeps
\* the samples of the old gain, a block built later has those of the new one
C7_Witness ==
    /\ stream = "active"
    /\ nChanges > 0
    /\ \E i, j \in 1 .. Len(produced) :
          /\ i < j
          /\ i \in SeqSet(audio_queue)
          /\ produced[i].data # Scale(produced[i].raw, gain)
          /\ produced[j].data = Scale(produced[j].raw, gain)
          /\ produced[j].data # Scale(produced[j].raw, DictGet(config, "gain", DefaultGain))

\* an entry the prompt takes: nothing (the default), or the digits of an
\* eligible index
EntryEligible(e) ==
    \/ e = ""
    \/ /\ e \in NumericEntries
       /\ EntryInt[e] \in valid_devices(query_devices)

\* the index an eligible entry stands for
EntryIndex(e) ==
    IF e = ""
    THEN CHOOSE i \in valid_devices(query_devices) :
            \A k \in valid_devices(query_devices) : i <= k
    ELSE EntryInt[e]

\* C8: get_device returns a saved index that is eligible without asking;
\* otherwise it asks, asks again after every entry that is not a number or
\* not eligible, and returns on the first entry that is eligible (nothing
\* typed standing for the first eligible device); what it returns is always
\* an eligible index.
C8_GetDeviceReturnsEligible ==
    /\ gd_pc = "returned" => device \in valid_devices(query_devices)
    /\ SavedIsValid(saved_device, query_devices) =>
          /\ gd_pc \in {"call", "returned"}
          /\ entries = <<>>
          /\ gd_pc = "returned" => device = saved_device[1]
    /\ (gd_pc = "returned" /\ ~SavedIsValid(saved_device, query_devices)) =>
          /\ Len(entries) >= 1
          /\ EntryEligible(entries[Len(entries)])
          /\ device = EntryIndex(entries[Len(entries)])
          /\ \A k \in 1 .. (Len(entries) - 1) : ~EntryEligible(entries[k])
    /\ gd_pc = "prompt" =>
          /\ ~SavedIsValid(saved_device, query_devices)
          /\ \A k \in 1 .. Len(entries) : ~EntryEligible(entries[k])
          /\ Len(entries) < MaxPrompts => \A e \in Entries : ENABLED GetDevicePrompt(e)
    /\ gd_pc = "raised" => valid_devices(query_devices) = {}

\* a saved index that is not eligible, then text, a number that is not
\* eligible, and nothing: the first eligible device is returned
C8_Witness ==
    /\ gd_pc = "returned"
    /\ saved_device # None
    /\ Len(entries) = 3
    /\ entries[1] = "abc"
    /\ entries[2] \in NumericEntries
    /\ entries[3] = ""
    /\ device > 0

\* the settings file a session may have found when it started
LoadedFiles == {load_config(f).file : f \in InitFiles}

\* the record of the settings in memory
CurrentRecord ==
    JsonFile([device_index |-> JNum(device), gain |-> JNum(gain),
              smoothing |-> JNum(smoothing)])

\* the stream could not be opened
OpenFailed == stream = "none" /\ pc \in {"save", "done"}

\* C9: when the stream cannot be opened run() prints the error, never
\* evaluates the loop, calls save_config once with the settings in memory
\* and returns; it does not raise.
C9_OpenFailureSavesOnceAndReturns ==
    /\ pc # "raised"
    /\ OpenFailed =>
          /\ reported
          /\ ~loopEntered
          /\ forwarded = <<>> /\ produced = <<>>
          /\ pc = "save" => (saveCalls = 0 /\ ENABLED FinalSave)
          /\ pc = "done" =>
                /\ saveCalls = 1
                /\ file \in LoadedFiles \cup {CurrentRecord}

\* no settings file, the stream failed to open, run() has returned and the
\* settings in memory are on file
C9_Witness ==
    /\ pc = "done"
    /\ stream = "none"
    /\ reported
    /\ saveCalls = 1
    /\ DOMAIN config = {}
    /\ file = CurrentRecord

\* C10: however the loop is left (window closed, or an exception inside it)
\* the stream is stopped and closed before the last save; run() never
\* returns with the stream started, and no callback runs after that.
C10_StreamIsScoped ==
    /\ pc \in {"save", "done"} => stream # "active"
    /\ (pc \in {"save", "done"} /\ loopEntered) => stream = "closed"
    /\ pc \in {"exit", "exit_raised"} => ENABLED StreamExit
    /\ pc \in {"save", "done"} => ~ENABLED AudioCallback
    /\ stream = "closed" => pc \in {"save", "done"}
    /\ pc = "done" => saveCalls >= 1

\* an exception ended the loop while the window was open and blocks were
\* queued; run() has returned and the stream is closed
C10_Witness ==
    /\ pc = "done"
    /\ stream = "closed"
    /\ reported
    /\ windowOpen
    /\ audio_queue # <<>>

DefaultsInEffect ==
    /\ DOMAIN config = {}
    /\ saved_device = None
    /\ gd_pc = "returned" => entries # <<>>
    /\ pc = "start" => (gain = DefaultGain /\ smoothing = DefaultSmoothing)

\* C14: a settings file that cannot be read (no JSON, no JSON object, or a
\* gain or smoothing float() rejects) gives the default settings, device
\* unset, gain 1.0, smoothing 0.8; load_config returns instead of raising,
\* the file is gone afterwards and another load_config finds no file.
C14_CorruptRecordGivesDefaults ==
    /\ pc = "boot" => ENABLED LoadConfig
    /\ (pc # "boot" /\ LoadRaises(startFile)) =>
          /\ DefaultsInEffect
          /\ file = NoFile
          /\ load_config(file).file = NoFile
          /\ DOMAIN load_config(file).config = {}

\* a file holding a gain that is text was found; construction has finished
\* on the defaults after a prompt for the device, and the file is gone
C14_Witness ==
    /\ pc = "start"
    /\ startFile.kind = "json"
    /\ LoadRaises(startFile)
    /\ file = NoFile
    /\ gain = DefaultGain
    /\ smoothing = DefaultSmoothing
    /\ entries # <<>>

\* a settings file load_config reads without raising
Readable(f) == f.kind = "json" /\ ~LoadRaises(f)

\* C15: a readable record lacking a field loads with that field's default:
\* without device_index the device is unset and get_device asks for a
\* selection, without gain the gain is 1.0, without smoothing the smoothing
\* is 0.8.
C15_MissingFieldFallsBack ==
    (pc # "boot" /\ Readable(startFile)) =>
        /\ "device_index" \notin DOMAIN startFile.doc =>
              /\ saved_device = None
              /\ gd_pc = "returned" => entries # <<>>
        /\ ("gain" \notin DOMAIN startFile.doc /\ pc = "start") => gain = DefaultGain
        /\ ("smoothing" \notin DOMAIN startFile.doc /\ pc = "start") =>
              smoothing = DefaultSmoothing

\* C16: with no settings file the settings in effect after load_config are
\* device unset (get_device asks), gain 1.0 and smoothing 0.8, and neither
\* load_config nor the rest of __init__ creates the file.
C16_NoFileGivesDefaults ==
    startFile = NoFile =>
        /\ file = NoFile
        /\ pc # "boot" => DefaultsInEffect

\* a first start: no file, the operator took the default device at the
\* prompt, construction has finished on gain 1.0 and smoothing 0.8
C16_Witness ==
    /\ pc = "start"
    /\ startFile = NoFile
    /\ file = NoFile
    /\ entries = <<"">>
    /\ device = FirstValid(query_devices)
    /\ gain = DefaultGain
    /\ smoothing = DefaultSmoothing

\* C17: from any readable settings file, once __init__ has set them the
\* gain in memory lies in [0.5, 50.0] and the smoothing in [0.0, 0.99].
C17_LiveSettingsWithinSliders ==
    (pc = "start" /\ ~LoadRaises(startFile)) =>
        /\ gain \in SliderGainMin .. SliderGainMax
        /\ smoothing \in SliderSmoothMin .. SliderSmoothMax

\* C18: the dequeue of the loop always returns, with a block or by its
\* timeout, so the loop reaches plt.pause and its next test also when the
\* queue stays empty; once the window is closed the test sees it, the loop
\* ends, the stream is closed, the last save_config runs and run() returns.
C18_LoopEndsOnceClosed ==
    /\ (pc = "get") ~> (pc = "pause")
    /\ (~windowOpen) ~> (pc = "done" /\ stream = "closed" /\ saveCalls = nChanges + 1)

\* no callback ever built a block, the window was closed, and run() has
\* returned after its last save
C18_Witness ==
    /\ pc = "done"
    /\ ~windowOpen
    /\ ~reported
    /\ produced = <<>>
    /\ forwarded = <<>>
    /\ stream = "closed"
    /\ saveCalls = nChanges + 1

\* the loop is left: run() was in it and is no longer
LoopLeft == pc \in LoopPcs /\ pc' \notin LoopPcs

C20_EmptyFrameChangesNothing ==
    [][audio_callback(<<>>) =>
          /\ cbResult' = "empty"
          /\ UNCHANGED <<audio_queue, produced, accepted>>
          /\ UNCHANGED <<gain, smoothing, config, file, device>>
          /\ UNCHANGED <<stream, pc, reported>>]_vars

\* a callback with no frames ran while blocks were queued and the gain had
\* been changed; the queued blocks are still there
C20_Witness ==
    /\ cbResult = "empty"
    /\ stream = "active"
    /\ audio_queue # <<>>
    /\ nChanges > 0
    /\ Len(audio_queue) + Len(forwarded) = Len(produced)

=============================================================================
